---- MODULE Spec2Model ----
(***************************************************************************)
(* Model of the SmartLogix dispatch backend (backend/server.py): the       *)
(* order lifecycle, the driver assignment and the order intake, served by  *)
(* concurrent request handlers over MongoDB collections.  Every awaited    *)
(* store call of a handler is one atomic step; the handlers interleave     *)
(* between their store calls.                                              *)
(***************************************************************************)
EXTENDS Integers, Sequences, FiniteSets, TLC

\* ------------------------------------------------------------------ bounds
MaxDrivers == 2     \* drivers that get registered
MaxOrders == 2      \* orders that get created
MaxProcs == 2       \* requests served at the same time
MaxClock == 2       \* readings of the wall clock: 1..MaxClock
MaxRequests == 3    \* requests received in one run
MaxNames == 1       \* distinct driver names
MaxPhones == 1      \* distinct customer phones
MaxRestaurants == 1 \* distinct restaurant names

\* None (Optional fields); ids, names, phones and clock readings are >= 1
NULL == 0

Procs == 1..MaxProcs
DriverIds == 1..MaxDrivers
OrderIds == 1..MaxOrders
DriverNames == 1..MaxNames
Phones == 1..MaxPhones
RestaurantNames == 1..MaxRestaurants

\* class OrderStatus
PENDING == "pending"
ASSIGNED == "assigned"
PICKED_UP == "picked_up"
IN_TRANSIT == "in_transit"
DELIVERED == "delivered"
CANCELLED == "cancelled"
OrderStatus == {PENDING, ASSIGNED, PICKED_UP, IN_TRANSIT, DELIVERED, CANCELLED}

\* class DriverStatus
AVAILABLE == "available"
BUSY == "busy"
OFFLINE == "offline"
DriverStatus == {AVAILABLE, BUSY, OFFLINE}

VARIABLES
    customers,      \* db.customers, in insertion order
    drivers,        \* db.drivers
    restaurants,    \* db.restaurants
    orders,         \* db.orders
    req,            \* per request slot: the handler it runs, its position and locals
    now,            \* the latest reading of datetime.now(timezone.utc)
    left            \* requests the run still receives

vars == <<customers, drivers, restaurants, orders, req, now, left>>

\* the four collections as one value
DB == [customers |-> customers, drivers |-> drivers,
       restaurants |-> restaurants, orders |-> orders]

\* ------------------------------------------------------------- the store
\* find_one returning None
NoDoc == [id |-> NULL]

\* a filter {field: value, ...} matches a document
Matches(doc, filter) == \A f \in DOMAIN filter : doc[f] = filter[f]

\* position of the first document matching the filter, 0 when there is none
FindIndex(coll, filter) ==
    IF \E i \in 1..Len(coll) : Matches(coll[i], filter)
    THEN CHOOSE i \in 1..Len(coll) :
            /\ Matches(coll[i], filter)
            /\ \A j \in 1..(i - 1) : ~Matches(coll[j], filter)
    ELSE 0

\* collection.find_one(filter)
find_one(coll, filter) ==
    IF FindIndex(coll, filter) = 0 THEN NoDoc ELSE coll[FindIndex(coll, filter)]

\* {"$set": upd} applied to one document
set_fields(doc, upd) ==
    [f \in DOMAIN doc |-> IF f \in DOMAIN upd THEN upd[f] ELSE doc[f]]

\* collection.update_one(filter, {"$set": upd}): the first matching document is
\* rewritten; modified_count counts it only when the write changed it
update_one(coll, filter, upd) ==
    LET i == FindIndex(coll, filter) IN
    IF i = 0
    THEN [coll |-> coll, matched_count |-> 0, modified_count |-> 0]
    ELSE [coll |-> [coll EXCEPT ![i] = set_fields(coll[i], upd)],
          matched_count |-> 1,
          modified_count |-> IF set_fields(coll[i], upd) = coll[i] THEN 0 ELSE 1]

\* collection.insert_one(doc)
insert_one(coll, doc) == Append(coll, doc)

\* uuid.uuid4() of a document about to be inserted: an id no document has
NewId(coll) == Len(coll) + 1

\* ------------------------------------------------------------- responses
NoResp == [status_code |-> 0, detail |-> ""]
Idle == [op |-> "none", pc |-> "idle", resp |-> NoResp]

\* return {...}: 200
Return200(r, message) ==
    [r EXCEPT !.pc = "done", !.resp = [status_code |-> 200, detail |-> message]]

\* raise HTTPException(status_code=404, detail=...)
Raise404(r, detail) ==
    [r EXCEPT !.pc = "done", !.resp = [status_code |-> 404, detail |-> detail]]

Out(db, r) == [db |-> db, r |-> r]

\* how a request was answered
NotFound(r, detail) == r.resp = [status_code |-> 404, detail |-> detail]
Conflict(r) == NotFound(r, "Order not found or already assigned")
Succeeded(r) == r.pc = "done" /\ r.resp.status_code = 200
Failed(r) == r.pc = "done" /\ r.resp.status_code # 200

\* --------------------------------------------------------- create_driver
NewCreateDriver(name) ==
    [op |-> "create_driver", pc |-> "insert_driver", name |-> name, resp |-> NoResp]

NewDriver(id, name) ==
    [id |-> id, name |-> name, status |-> AVAILABLE, current_order_id |-> NULL]

create_driver(db, r) ==
    Out([db EXCEPT !.drivers = insert_one(db.drivers, NewDriver(NewId(db.drivers), r.name))],
        Return200(r, "driver"))

\* -------------------------------------------------- update_driver_status
NewUpdateDriverStatus(d, s) ==
    [op |-> "update_driver_status", pc |-> "update_driver", driver_id |-> d,
     status |-> s, resp |-> NoResp]

update_driver_status(db, r) ==
    LET result == update_one(db.drivers, [id |-> r.driver_id], [status |-> r.status]) IN
    Out([db EXCEPT !.drivers = result.coll],
        IF result.modified_count = 0
        THEN Raise404(r, "Driver not found")
        ELSE Return200(r, "Driver status updated"))

\* ---------------------------------------------------------- create_order
NewCreateOrder(phone, rname) ==
    [op |-> "create_order", pc |-> "find_customer", customer_phone |-> phone,
     restaurant_name |-> rname, customer_id |-> NULL, restaurant_id |-> NULL,
     resp |-> NoResp]

NewOrder(id, r) ==
    [id |-> id, customer_id |-> r.customer_id, customer_phone |-> r.customer_phone,
     restaurant_id |-> r.restaurant_id, restaurant_name |-> r.restaurant_name,
     status |-> PENDING, driver_id |-> NULL, driver_name |-> NULL,
     assigned_at |-> NULL, picked_up_at |-> NULL, delivered_at |-> NULL]

create_order_find_customer(db, r) ==
    LET existing_customer == find_one(db.customers, [phone |-> r.customer_phone]) IN
    IF existing_customer = NoDoc
    THEN Out(db, [r EXCEPT !.pc = "insert_customer"])
    ELSE Out(db, [r EXCEPT !.customer_id = existing_customer.id, !.pc = "find_restaurant"])

create_order_insert_customer(db, r) ==
    LET id == NewId(db.customers) IN
    Out([db EXCEPT !.customers = insert_one(@, [id |-> id, phone |-> r.customer_phone])],
        [r EXCEPT !.customer_id = id, !.pc = "find_restaurant"])

create_order_find_restaurant(db, r) ==
    LET existing_restaurant == find_one(db.restaurants, [name |-> r.restaurant_name]) IN
    IF existing_restaurant = NoDoc
    THEN Out(db, [r EXCEPT !.pc = "insert_restaurant"])
    ELSE Out(db, [r EXCEPT !.restaurant_id = existing_restaurant.id, !.pc = "insert_order"])

create_order_insert_restaurant(db, r) ==
    LET id == NewId(db.restaurants) IN
    Out([db EXCEPT !.restaurants = insert_one(@, [id |-> id, name |-> r.restaurant_name])],
        [r EXCEPT !.restaurant_id = id, !.pc = "insert_order"])

create_order_insert_order(db, r) ==
    Out([db EXCEPT !.orders = insert_one(@, NewOrder(NewId(db.orders), r))],
        Return200(r, "order"))

\* ------------------------------------------------ assign_order_to_driver
NewAssign(o, d) ==
    [op |-> "assign_order_to_driver", pc |-> "find_driver", order_id |-> o,
     driver_id |-> d, driver_name |-> NULL, resp |-> NoResp]

\* variant: the driver is marked busy as soon as it is found, before the order write
assign_find_driver_marks_busy(db, r) ==
    LET driver == find_one(db.drivers, [id |-> r.driver_id]) IN
    IF driver = NoDoc
    THEN Out(db, Raise404(r, "Driver not found"))
    ELSE Out([db EXCEPT !.drivers =
                 update_one(@, [id |-> r.driver_id],
                            [status |-> BUSY, current_order_id |-> r.order_id]).coll],
             [r EXCEPT !.driver_name = driver.name, !.pc = "update_order"])

\* variant: the result of the driver lookup is not checked
assign_find_driver_unchecked(db, r) ==
    LET driver == find_one(db.drivers, [id |-> r.driver_id]) IN
    IF driver = NoDoc
    THEN Out(db, [r EXCEPT !.pc = "update_order"])
    ELSE Out(db, [r EXCEPT !.driver_name = driver.name, !.pc = "update_order"])

assign_find_driver(db, r) ==
    LET driver == find_one(db.drivers, [id |-> r.driver_id]) IN
    IF driver = NoDoc
    THEN Out(db, Raise404(r, "Driver not found"))
    ELSE Out(db, [r EXCEPT !.driver_name = driver.name, !.pc = "update_order"])

\* variant: the order write is not conditional on the status being pending
assign_update_order_unconditional(db, r, t) ==
    LET order_result ==
            update_one(db.orders, [id |-> r.order_id],
                       [status |-> ASSIGNED, driver_id |-> r.driver_id,
                        driver_name |-> r.driver_name, assigned_at |-> t]) IN
    IF order_result.matched_count = 0
    THEN Out([db EXCEPT !.orders = order_result.coll],
             Raise404(r, "Order not found or already assigned"))
    ELSE Out([db EXCEPT !.orders = order_result.coll],
             [r EXCEPT !.pc = "update_driver"])

\* variant: the outcome of the order write is not looked at
assign_update_order_result_ignored(db, r, t) ==
    LET order_result ==
            update_one(db.orders, [id |-> r.order_id, status |-> PENDING],
                       [status |-> ASSIGNED, driver_id |-> r.driver_id,
                        driver_name |-> r.driver_name, assigned_at |-> t]) IN
    Out([db EXCEPT !.orders = order_result.coll], [r EXCEPT !.pc = "update_driver"])

assign_update_order(db, r, t) ==
    LET order_result ==
            update_one(db.orders, [id |-> r.order_id, status |-> PENDING],
                       [status |-> ASSIGNED, driver_id |-> r.driver_id,
                        driver_name |-> r.driver_name, assigned_at |-> t]) IN
    IF order_result.modified_count = 0
    THEN Out([db EXCEPT !.orders = order_result.coll],
             Raise404(r, "Order not found or already assigned"))
    ELSE Out([db EXCEPT !.orders = order_result.coll],
             [r EXCEPT !.pc = "update_driver"])

assign_update_driver(db, r) ==
    Out([db EXCEPT !.drivers =
            update_one(@, [id |-> r.driver_id],
                       [status |-> BUSY, current_order_id |-> r.order_id]).coll],
        Return200(r, "Order assigned successfully"))

\* --------------------------------------------------- update_order_status
NewUpdateOrderStatus(o, s) ==
    [op |-> "update_order_status", pc |-> "build_update", order_id |-> o,
     status |-> s, update_data |-> [status |-> s], release |-> NULL, resp |-> NoResp]

\* variant: only picked_up gets its timestamp
build_update_data_no_delivered_at(status, current_time) ==
    IF status = PICKED_UP THEN [status |-> status, picked_up_at |-> current_time]
    ELSE [status |-> status]

\* variant: delivered stamps the pick-up time as well
build_update_data_stamps_both(status, current_time) ==
    IF status = PICKED_UP THEN [status |-> status, picked_up_at |-> current_time]
    ELSE IF status = DELIVERED
         THEN [status |-> status, picked_up_at |-> current_time, delivered_at |-> current_time]
    ELSE [status |-> status]

\* variant: only delivered gets its timestamp
build_update_data_no_picked_up_at(status, current_time) ==
    IF status = DELIVERED THEN [status |-> status, delivered_at |-> current_time]
    ELSE [status |-> status]

\* update_data with the timestamp that goes with the target status
build_update_data(status, current_time) ==
    IF status = PICKED_UP THEN [status |-> status, picked_up_at |-> current_time]
    ELSE IF status = DELIVERED THEN [status |-> status, delivered_at |-> current_time]
    ELSE [status |-> status]

\* variant: a delivered order is final, the write is refused
update_order_status_write_validated(db, r) ==
    IF find_one(db.orders, [id |-> r.order_id, status |-> DELIVERED]) # NoDoc
    THEN Out(db, Raise404(r, "Order not found"))
    ELSE LET result == update_one(db.orders, [id |-> r.order_id], r.update_data) IN
         Out([db EXCEPT !.orders = result.coll],
             IF result.modified_count = 0
             THEN Raise404(r, "Order not found")
             ELSE Return200(r, "Order status updated"))

update_order_status_write(db, r) ==
    LET result == update_one(db.orders, [id |-> r.order_id], r.update_data) IN
    Out([db EXCEPT !.orders = result.coll],
        IF result.modified_count = 0
        THEN Raise404(r, "Order not found")
        ELSE Return200(r, "Order status updated"))

\* variant: delivered does not free the driver
update_order_status_begin_no_release(db, r, t) ==
    LET r1 == [r EXCEPT !.update_data = build_update_data(r.status, t)] IN
    IF r.status = DELIVERED
    THEN Out(db, [r1 EXCEPT !.pc = "update_order"])
    ELSE update_order_status_write(db, r1)

\* variant: cancelled frees the driver as delivered does
update_order_status_begin_cancel_releases(db, r, t) ==
    LET r1 == [r EXCEPT !.update_data = build_update_data(r.status, t)] IN
    IF r.status \in {DELIVERED, CANCELLED}
    THEN LET order == find_one(db.orders, [id |-> r.order_id]) IN
         IF order # NoDoc /\ order.driver_id # NULL
         THEN Out(db, [r1 EXCEPT !.release = order.driver_id, !.pc = "release_driver"])
         ELSE Out(db, [r1 EXCEPT !.pc = "update_order"])
    ELSE update_order_status_write(db, r1)

\* the handler up to and including its first store call
update_order_status_begin(db, r, t) ==
    LET r1 == [r EXCEPT !.update_data = build_update_data(r.status, t)] IN
    IF r.status = DELIVERED
    THEN LET order == find_one(db.orders, [id |-> r.order_id]) IN
         IF order # NoDoc /\ order.driver_id # NULL
         THEN Out(db, [r1 EXCEPT !.release = order.driver_id, !.pc = "release_driver"])
         ELSE Out(db, [r1 EXCEPT !.pc = "update_order"])
    ELSE update_order_status_write(db, r1)

\* variant: the freed driver is written with the wrong status
update_order_status_release_offline(db, r) ==
    Out([db EXCEPT !.drivers =
            update_one(@, [id |-> r.release],
                       [status |-> OFFLINE, current_order_id |-> NULL]).coll],
        [r EXCEPT !.pc = "update_order"])

update_order_status_release(db, r) ==
    Out([db EXCEPT !.drivers =
            update_one(@, [id |-> r.release],
                       [status |-> AVAILABLE, current_order_id |-> NULL]).coll],
        [r EXCEPT !.pc = "update_order"])

\* --------------------------------------------------- get_dashboard_stats
\* collection.count_documents(filter)
count_documents(coll, filter) ==
    Cardinality({i \in 1..Len(coll) : Matches(coll[i], filter)})

\* collection.count_documents({"status": {"$in": statuses}})
count_documents_in(coll, statuses) ==
    Cardinality({i \in 1..Len(coll) : coll[i].status \in statuses})

NewDashboardStats ==
    [op |-> "get_dashboard_stats", pc |-> "total_orders",
     total_orders |-> 0, pending_orders |-> 0, active_orders |-> 0, completed_orders |-> 0,
     total_drivers |-> 0, available_drivers |-> 0, busy_drivers |-> 0, resp |-> NoResp]

\* variant: orders in transit are not counted as active
ActiveStatusesWithoutInTransit == {ASSIGNED, PICKED_UP}

\* the statuses counted as active
ActiveStatuses == {ASSIGNED, PICKED_UP, IN_TRANSIT}

\* the next count of the handler; the last one builds the response
get_dashboard_stats(db, r) ==
    CASE r.pc = "total_orders" ->
            Out(db, [r EXCEPT !.total_orders = count_documents(db.orders, << >>),
                              !.pc = "pending_orders"])
      [] r.pc = "pending_orders" ->
            Out(db, [r EXCEPT !.pending_orders = count_documents(db.orders, [status |-> PENDING]),
                              !.pc = "active_orders"])
      [] r.pc = "active_orders" ->
            Out(db, [r EXCEPT !.active_orders = count_documents_in(db.orders, ActiveStatuses),
                              !.pc = "completed_orders"])
      [] r.pc = "completed_orders" ->
            Out(db, [r EXCEPT !.completed_orders = count_documents(db.orders, [status |-> DELIVERED]),
                              !.pc = "total_drivers"])
      [] r.pc = "total_drivers" ->
            Out(db, [r EXCEPT !.total_drivers = count_documents(db.drivers, << >>),
                              !.pc = "available_drivers"])
      [] r.pc = "available_drivers" ->
            Out(db, [r EXCEPT !.available_drivers = count_documents(db.drivers, [status |-> AVAILABLE]),
                              !.pc = "busy_drivers"])
      [] r.pc = "busy_drivers" ->
            Out(db, Return200([r EXCEPT !.busy_drivers =
                                    count_documents(db.drivers, [status |-> BUSY])],
                              "stats"))

\* ----------------------------------------------------------------- steps
\* the next store call of the handler that request r runs, at clock reading t
Step(db, r, t) ==
    CASE r.op = "create_driver" -> create_driver(db, r)
      [] r.op = "update_driver_status" -> update_driver_status(db, r)
      [] r.op = "create_order" /\ r.pc = "find_customer" -> create_order_find_customer(db, r)
      [] r.op = "create_order" /\ r.pc = "insert_customer" -> create_order_insert_customer(db, r)
      [] r.op = "create_order" /\ r.pc = "find_restaurant" -> create_order_find_restaurant(db, r)
      [] r.op = "create_order" /\ r.pc = "insert_restaurant" -> create_order_insert_restaurant(db, r)
      [] r.op = "create_order" /\ r.pc = "insert_order" -> create_order_insert_order(db, r)
      [] r.op = "assign_order_to_driver" /\ r.pc = "find_driver" -> assign_find_driver(db, r)
      [] r.op = "assign_order_to_driver" /\ r.pc = "update_order" -> assign_update_order(db, r, t)
      [] r.op = "assign_order_to_driver" /\ r.pc = "update_driver" -> assign_update_driver(db, r)
      [] r.op = "update_order_status" /\ r.pc = "build_update" -> update_order_status_begin(db, r, t)
      [] r.op = "update_order_status" /\ r.pc = "release_driver" -> update_order_status_release(db, r)
      [] r.op = "update_order_status" /\ r.pc = "update_order" -> update_order_status_write(db, r)
      [] r.op = "get_dashboard_stats" -> get_dashboard_stats(db, r)

\* request r served from db with no other request taking a step meanwhile
RECURSIVE Run(_, _, _)
Run(db, r, t) ==
    IF r.pc = "done" THEN Out(db, r) ELSE Run(Step(db, r, t).db, Step(db, r, t).r, t)

\* the requests rs served one after the other
RECURSIVE RunAll(_, _, _)
RunAll(db, rs, t) ==
    IF rs = << >> THEN db ELSE RunAll(Run(db, Head(rs), t).db, Tail(rs), t)

EmptyDB == [customers |-> << >>, drivers |-> << >>, restaurants |-> << >>, orders |-> << >>]

\* the i-th of the values 1..n, going round
Nth(i, n) == ((i - 1) % n) + 1

\* the database the process finds when it starts: k drivers registered and m
\* orders taken in, one request after the other
Populated(k, m) ==
    RunAll(EmptyDB,
           [i \in 1..k |-> NewCreateDriver(Nth(i, MaxNames))]
             \o [i \in 1..m |-> NewCreateOrder(Nth(i, MaxPhones), Nth(i, MaxRestaurants))],
           1)

\* ---------------------------------------------------------------- actions
Commit(p, out) ==
    /\ customers' = out.db.customers
    /\ drivers' = out.db.drivers
    /\ restaurants' = out.db.restaurants
    /\ orders' = out.db.orders
    /\ req' = [req EXCEPT ![p] = out.r]
    /\ left' = IF req[p].pc \in {"idle", "done"} THEN left - 1 ELSE left

\* a slot that can receive a request: it serves none, or has answered the last one
Free(p) == req[p].pc \in {"idle", "done"} /\ left > 0

\* datetime.now(timezone.utc): the clock does not run backwards
ClockReadings == now..MaxClock

Running(op) == {p \in Procs : req[p].op = op /\ req[p].pc # "done"}

CreateDriver(p) ==
    /\ Free(p)
    /\ Len(drivers) < MaxDrivers
    /\ \E name \in DriverNames : Commit(p, create_driver(DB, NewCreateDriver(name)))
    /\ UNCHANGED now

UpdateDriverStatus(p) ==
    /\ Free(p)
    /\ \E d \in DriverIds, s \in DriverStatus :
          Commit(p, update_driver_status(DB, NewUpdateDriverStatus(d, s)))
    /\ UNCHANGED now

CreateOrderFindCustomer(p) ==
    /\ Free(p)
    /\ Len(orders) + Cardinality(Running("create_order")) < MaxOrders
    /\ \E phone \in Phones, rname \in RestaurantNames :
          Commit(p, create_order_find_customer(DB, NewCreateOrder(phone, rname)))
    /\ UNCHANGED now

CreateOrderInsertCustomer(p) ==
    /\ req[p].op = "create_order" /\ req[p].pc = "insert_customer"
    /\ Commit(p, create_order_insert_customer(DB, req[p]))
    /\ UNCHANGED now

CreateOrderFindRestaurant(p) ==
    /\ req[p].op = "create_order" /\ req[p].pc = "find_restaurant"
    /\ Commit(p, create_order_find_restaurant(DB, req[p]))
    /\ UNCHANGED now

CreateOrderInsertRestaurant(p) ==
    /\ req[p].op = "create_order" /\ req[p].pc = "insert_restaurant"
    /\ Commit(p, create_order_insert_restaurant(DB, req[p]))
    /\ UNCHANGED now

CreateOrderInsertOrder(p) ==
    /\ req[p].op = "create_order" /\ req[p].pc = "insert_order"
    /\ Commit(p, create_order_insert_order(DB, req[p]))
    /\ UNCHANGED now

AssignFindDriver(p) ==
    /\ Free(p)
    /\ \E o \in OrderIds, d \in DriverIds :
          Commit(p, assign_find_driver(DB, NewAssign(o, d)))
    /\ UNCHANGED now

AssignUpdateOrder(p) ==
    /\ req[p].op = "assign_order_to_driver" /\ req[p].pc = "update_order"
    /\ \E t \in ClockReadings :
          Commit(p, assign_update_order(DB, req[p], t)) /\ now' = t

AssignUpdateDriver(p) ==
    /\ req[p].op = "assign_order_to_driver" /\ req[p].pc = "update_driver"
    /\ Commit(p, assign_update_driver(DB, req[p]))
    /\ UNCHANGED now

UpdateOrderStatusBegin(p) ==
    /\ Free(p)
    /\ \E o \in OrderIds, s \in OrderStatus, t \in ClockReadings :
          Commit(p, update_order_status_begin(DB, NewUpdateOrderStatus(o, s), t)) /\ now' = t

UpdateOrderStatusRelease(p) ==
    /\ req[p].op = "update_order_status" /\ req[p].pc = "release_driver"
    /\ Commit(p, update_order_status_release(DB, req[p]))
    /\ UNCHANGED now

UpdateOrderStatusWrite(p) ==
    /\ req[p].op = "update_order_status" /\ req[p].pc = "update_order"
    /\ Commit(p, update_order_status_write(DB, req[p]))
    /\ UNCHANGED now

\* the database outlives the process: a run starts on what earlier requests stored
InitDB ==
    /\ \E k \in 0..MaxDrivers, m \in 0..MaxOrders :
            /\ customers = Populated(k, m).customers
            /\ drivers = Populated(k, m).drivers
            /\ restaurants = Populated(k, m).restaurants
            /\ orders = Populated(k, m).orders
    /\ req = [p \in Procs |-> Idle]
    /\ now = 1

Init == InitDB /\ left = MaxRequests

Serve(p) ==
    \/ CreateDriver(p)
    \/ UpdateDriverStatus(p)
    \/ CreateOrderFindCustomer(p)
    \/ CreateOrderInsertCustomer(p)
    \/ CreateOrderFindRestaurant(p)
    \/ CreateOrderInsertRestaurant(p)
    \/ CreateOrderInsertOrder(p)
    \/ AssignFindDriver(p)
    \/ AssignUpdateOrder(p)
    \/ AssignUpdateDriver(p)
    \/ UpdateOrderStatusBegin(p)
    \/ UpdateOrderStatusRelease(p)
    \/ UpdateOrderStatusWrite(p)

\* requests are served concurrently, interleaving at their store calls
Next == \E p \in Procs : Serve(p)

Spec == Init /\ [][Next]_vars

\* ------------------------------------------------------------ scenarios
\* the first store call of an assign request that has been received
AssignCall(p) ==
    /\ req[p].op = "assign_order_to_driver" /\ req[p].pc = "find_driver"
    /\ Commit(p, assign_find_driver(DB, req[p]))
    /\ UNCHANGED now

\* the first store call of a status update that has been received
UpdateOrderStatusCall(p) ==
    /\ req[p].op = "update_order_status" /\ req[p].pc = "build_update"
    /\ \E t \in ClockReadings :
          Commit(p, update_order_status_begin(DB, req[p], t)) /\ now' = t

\* drivers whose status has been set by hand, and possibly an order that was
\* assigned and put back to pending
Prepared(db, statuses, history) ==
    RunAll(db, [i \in 1..Len(statuses) |-> NewUpdateDriverStatus(i, statuses[i])] \o history, 1)

Histories(k, m) ==
    {<< >>} \cup {<<NewAssign(o, d), NewUpdateOrderStatus(o, PENDING)>> : o \in 1..m, d \in 1..k}

\* slots 1 and 2 have each received an assign request for the same pending order,
\* for two different existing drivers
InitRace ==
    /\ \E k \in 2..MaxDrivers, m \in 1..MaxOrders :
         \E statuses \in [1..k -> DriverStatus], history \in Histories(k, m) :
            /\ customers = Prepared(Populated(k, m), statuses, history).customers
            /\ drivers = Prepared(Populated(k, m), statuses, history).drivers
            /\ restaurants = Prepared(Populated(k, m), statuses, history).restaurants
            /\ orders = Prepared(Populated(k, m), statuses, history).orders
    /\ \E o \in 1..Len(orders), d1 \in 1..Len(drivers), d2 \in 1..Len(drivers) :
         /\ d1 # d2
         /\ orders[o].status = PENDING
         /\ req = [p \in Procs |-> IF p = 1 THEN NewAssign(o, d1)
                                   ELSE IF p = 2 THEN NewAssign(o, d2) ELSE Idle]
    /\ now = 1
    /\ left = 0

NextRace ==
    \E p \in Procs :
        \/ AssignCall(p)
        \/ AssignUpdateOrder(p)
        \/ AssignUpdateDriver(p)

SpecAssignRace == InitRace /\ [][NextRace]_vars

\* ---- one status update to delivered, on an order whose driver is busy on it
\* order o was assigned to driver d, and possibly given another status since
Assigned(o, d) ==
    {<<NewAssign(o, d)>>}
        \cup {<<NewAssign(o, d), NewUpdateOrderStatus(o, s)>> : s \in OrderStatus}

\* slot 1 has received updateStatus(o, delivered); driver d is busy on order o
InitDeliver ==
    /\ \E k \in 1..MaxDrivers, m \in 1..MaxOrders :
         \E statuses \in [1..k -> DriverStatus], o \in 1..m, d \in 1..k :
            \E history \in Assigned(o, d) :
                /\ customers = Prepared(Populated(k, m), statuses, history).customers
                /\ drivers = Prepared(Populated(k, m), statuses, history).drivers
                /\ restaurants = Prepared(Populated(k, m), statuses, history).restaurants
                /\ orders = Prepared(Populated(k, m), statuses, history).orders
                /\ drivers[d].status = BUSY
                /\ drivers[d].current_order_id = orders[o].id
                /\ orders[o].driver_id = drivers[d].id
                /\ req = [p \in Procs |-> IF p = 1 THEN NewUpdateOrderStatus(orders[o].id, DELIVERED)
                                          ELSE Idle]
    /\ now = 1
    /\ left = 0

NextDeliver ==
    \E p \in Procs :
        \/ UpdateOrderStatusCall(p)
        \/ UpdateOrderStatusRelease(p)
        \/ UpdateOrderStatusWrite(p)

SpecDeliver == InitDeliver /\ [][NextDeliver]_vars

\* ---- one status update, on orders in any status
\* order o was delivered by driver d, who was then assigned order o2
DeliveredThenReassigned(k, m) ==
    {<<NewAssign(o, d), NewUpdateOrderStatus(o, DELIVERED), NewAssign(o2, d)>> :
        o \in 1..m, o2 \in 1..m, d \in 1..k}

\* what earlier requests did to order o: nothing, a status update, an assignment
\* possibly followed by a status update, or a delivery followed by a new
\* assignment of its driver
OrderHistories(k, m) ==
    {<< >>}
        \cup {<<NewUpdateOrderStatus(o, s)>> : o \in 1..m, s \in OrderStatus}
        \cup UNION {Assigned(o, d) : o \in 1..m, d \in 1..k}
        \cup DeliveredThenReassigned(k, m)

\* slot 1 has received updateStatus(o, s), for an order id that may not exist
InitUpdateStatus ==
    /\ \E k \in 0..MaxDrivers, m \in 0..MaxOrders :
         \E statuses \in [1..k -> DriverStatus], history \in OrderHistories(k, m) :
            /\ customers = Prepared(Populated(k, m), statuses, history).customers
            /\ drivers = Prepared(Populated(k, m), statuses, history).drivers
            /\ restaurants = Prepared(Populated(k, m), statuses, history).restaurants
            /\ orders = Prepared(Populated(k, m), statuses, history).orders
    /\ \E o \in OrderIds, s \in OrderStatus :
         req = [p \in Procs |-> IF p = 1 THEN NewUpdateOrderStatus(o, s) ELSE Idle]
    /\ now = 1
    /\ left = 0

SpecUpdateStatus == InitUpdateStatus /\ [][NextDeliver]_vars

\* ---- the dashboard read, with no write in progress
DashboardStats(p) ==
    /\ req[p].op = "get_dashboard_stats" /\ req[p].pc # "done"
    /\ Commit(p, get_dashboard_stats(DB, req[p]))
    /\ UNCHANGED now

\* drivers and orders in any status; slot 1 has received the stats request
InitStats ==
    /\ \E k \in 0..MaxDrivers, m \in 0..MaxOrders :
         \E statuses \in [1..k -> DriverStatus], ostatuses \in [1..m -> OrderStatus] :
            LET db == Prepared(Populated(k, m), statuses,
                               [i \in 1..m |-> NewUpdateOrderStatus(i, ostatuses[i])]) IN
            /\ customers = db.customers
            /\ drivers = db.drivers
            /\ restaurants = db.restaurants
            /\ orders = db.orders
    /\ req = [p \in Procs |-> IF p = 1 THEN NewDashboardStats ELSE Idle]
    /\ now = 1
    /\ left = 0

NextStats == \E p \in Procs : DashboardStats(p)

SpecStats == InitStats /\ [][NextStats]_vars

\* ---- the delivery flow of one order: assign, picked_up, in_transit, delivered
\* the status the client asks for next, once the last call has been answered
NextStatus(r) ==
    IF r.op = "assign_order_to_driver" THEN PICKED_UP
    ELSE IF r.status = PICKED_UP THEN IN_TRANSIT
    ELSE DELIVERED

\* the client goes on to the next call of the flow
NextCall(p) ==
    /\ Succeeded(req[p])
    /\ req[p].op = "update_order_status" => req[p].status \in {PICKED_UP, IN_TRANSIT}
    /\ req' = [req EXCEPT ![p] = NewUpdateOrderStatus(req[p].order_id, NextStatus(req[p]))]
    /\ UNCHANGED <<customers, drivers, restaurants, orders, now, left>>

\* slot 1 has received assign(o, d) for a driver and an order as they were created
InitLifecycle ==
    /\ \E k \in 1..MaxDrivers, m \in 1..MaxOrders :
         \E statuses \in [1..k -> DriverStatus], o \in 1..m, d \in 1..k :
            /\ statuses[d] = AVAILABLE
            /\ customers = Prepared(Populated(k, m), statuses, << >>).customers
            /\ drivers = Prepared(Populated(k, m), statuses, << >>).drivers
            /\ restaurants = Prepared(Populated(k, m), statuses, << >>).restaurants
            /\ orders = Prepared(Populated(k, m), statuses, << >>).orders
            /\ req = [p \in Procs |-> IF p = 1 THEN NewAssign(orders[o].id, drivers[d].id)
                                      ELSE Idle]
    /\ now = 1
    /\ left = 0

NextLifecycle ==
    \E p \in Procs :
        \/ AssignCall(p)
        \/ AssignUpdateOrder(p)
        \/ AssignUpdateDriver(p)
        \/ NextCall(p)
        \/ UpdateOrderStatusCall(p)
        \/ UpdateOrderStatusRelease(p)
        \/ UpdateOrderStatusWrite(p)

SpecLifecycle == InitLifecycle /\ [][NextLifecycle]_vars

\* ------------------------------------------------------------ properties
OrderOf(db, o) == find_one(db.orders, [id |-> o])
DriverOf(db, d) == find_one(db.drivers, [id |-> d])

\* slot p takes a step of handler op
Steps(p, op) == req'[p] # req[p] /\ req'[p].op = op

StoreUnchanged == UNCHANGED <<customers, drivers, restaurants, orders>>

\* C1  Assignment exclusivity: of two concurrent assign calls on one pending order
\* for two different existing drivers, exactly one succeeds and the other reports
\* Conflict, and the order ends with the driver of the call that succeeded.
C1_AssignmentExclusivity ==
    (req[1].pc = "done" /\ req[2].pc = "done") =>
        \E w \in {1, 2} :
            /\ Succeeded(req[w])
            /\ Conflict(req[3 - w])
            /\ OrderOf(DB, req[w].order_id).status = ASSIGNED
            /\ OrderOf(DB, req[w].order_id).driver_id = req[w].driver_id

C1_Witness ==
    /\ req[1].pc = "done" /\ req[2].pc = "done"
    /\ Succeeded(req[2]) /\ Conflict(req[1])
    /\ OrderOf(DB, req[2].order_id).driver_id = req[2].driver_id

\* C2  Order invariant: for every order, driver_id is set if and only if status is
\* one of assigned, picked_up, in_transit, delivered.
C2_OrderInvariant ==
    \A i \in 1..Len(orders) :
        (orders[i].driver_id # NULL)
            <=> (orders[i].status \in {ASSIGNED, PICKED_UP, IN_TRANSIT, DELIVERED})

\* C3  Driver invariant: for every driver, current_order_id is set if and only if
\* the driver is busy, the referenced order's driver_id is this driver and that
\* order's status is one of assigned, picked_up, in_transit.
C3_DriverInvariant ==
    \A i \in 1..Len(drivers) :
        (drivers[i].current_order_id # NULL)
            <=> /\ drivers[i].status = BUSY
                /\ OrderOf(DB, drivers[i].current_order_id) # NoDoc
                /\ OrderOf(DB, drivers[i].current_order_id).driver_id = drivers[i].id
                /\ OrderOf(DB, drivers[i].current_order_id).status
                       \in {ASSIGNED, PICKED_UP, IN_TRANSIT}

\* C4  Driver release: when driver D is busy on order O (current_order_id = O and
\* O.driver_id = D), updateStatus(O, delivered) run with nothing interleaved leaves
\* D available with current_order_id cleared and O delivered.
C4_DriverRelease ==
    req[1].pc = "done" =>
        /\ OrderOf(DB, req[1].order_id).status = DELIVERED
        /\ DriverOf(DB, OrderOf(DB, req[1].order_id).driver_id).status = AVAILABLE
        /\ DriverOf(DB, OrderOf(DB, req[1].order_id).driver_id).current_order_id = NULL
        /\ \A i \in 1..Len(drivers) : drivers[i].current_order_id # req[1].order_id

C4_Witness ==
    /\ req[1].op = "update_order_status" /\ req[1].status = DELIVERED
    /\ Succeeded(req[1])
    /\ req[1].release # NULL
    /\ OrderOf(DB, req[1].order_id).status = DELIVERED
    /\ OrderOf(DB, req[1].order_id).driver_id = req[1].release
    /\ DriverOf(DB, req[1].release).status = AVAILABLE
    /\ DriverOf(DB, req[1].release).current_order_id = NULL

\* C5  A failed assign changes nothing: the steps of an assign call that fails
\* (driver not found, or order missing or not pending) leave every order and every
\* driver record as it was, and a call that has written the order does not fail.
C5_FailedAssignChangesNothing ==
    [][\A p \in Procs :
         Steps(p, "assign_order_to_driver") =>
            /\ (req'[p].pc = "update_order" \/ Failed(req'[p])) => StoreUnchanged
            /\ Failed(req'[p]) => req[p].pc # "update_driver"]_vars

C5_Witness ==
    \E p \in Procs :
        /\ req[p].op = "assign_order_to_driver" /\ Failed(req[p]) /\ Conflict(req[p])
        /\ DriverOf(DB, req[p].driver_id) # NoDoc
        /\ DriverOf(DB, req[p].driver_id).status = AVAILABLE
        /\ DriverOf(DB, req[p].driver_id).current_order_id = NULL
        /\ OrderOf(DB, req[p].order_id) # NoDoc
        /\ OrderOf(DB, req[p].order_id).driver_id # req[p].driver_id

\* C6  Outcome of assign(O, D): NotFound when D does not exist; with D existing,
\* Conflict when O does not exist or is not pending, and success exactly when O
\* exists and is pending (so a second assign after a successful one is a Conflict).
C6_AssignOutcome ==
    [][\A p \in Procs :
         Steps(p, "assign_order_to_driver") =>
            /\ req[p].pc \in {"idle", "done"} =>
                  IF DriverOf(DB, req'[p].driver_id) = NoDoc
                  THEN req'[p].pc = "done" /\ NotFound(req'[p], "Driver not found")
                  ELSE req'[p].pc = "update_order"
            /\ req[p].pc = "update_order" =>
                  IF /\ OrderOf(DB, req[p].order_id) # NoDoc
                     /\ OrderOf(DB, req[p].order_id).status = PENDING
                  THEN req'[p].pc = "update_driver"
                  ELSE req'[p].pc = "done" /\ Conflict(req'[p])
            /\ req[p].pc = "update_driver" =>
                  req'[p].pc = "done" /\ Succeeded(req'[p])]_vars

C6_Witness ==
    \E p \in Procs :
        /\ req[p].op = "assign_order_to_driver" /\ req[p].pc = "done" /\ Conflict(req[p])
        /\ DriverOf(DB, req[p].driver_id) # NoDoc
        /\ OrderOf(DB, req[p].order_id) # NoDoc
        /\ OrderOf(DB, req[p].order_id).status = ASSIGNED

\* C7  Outcome of updateStatus(O, s): NotFound if and only if no order with id O
\* exists; success for every existing order and every target status, the order's
\* current status included.
C7_UpdateStatusOutcome ==
    [][\A p \in Procs :
         (Steps(p, "update_order_status") /\ req'[p].pc = "done") =>
            IF OrderOf(DB, req'[p].order_id) = NoDoc
            THEN NotFound(req'[p], "Order not found")
            ELSE Succeeded(req'[p])]_vars

\* C8  Full lifecycle: for a fresh driver D and a fresh order O, assign(O, D),
\* updateStatus(O, picked_up), updateStatus(O, in_transit), updateStatus(O,
\* delivered) all succeed; after assign O is assigned to D and D is busy; at the end
\* O is delivered with delivered_at set and D is available with no current order.
C8_FullLifecycle ==
    req[1].pc = "done" =>
        /\ Succeeded(req[1])
        /\ req[1].op = "assign_order_to_driver" =>
              /\ OrderOf(DB, req[1].order_id).status = ASSIGNED
              /\ OrderOf(DB, req[1].order_id).driver_id = req[1].driver_id
              /\ DriverOf(DB, req[1].driver_id).status = BUSY
        /\ (req[1].op = "update_order_status" /\ req[1].status = DELIVERED) =>
              /\ OrderOf(DB, req[1].order_id).status = DELIVERED
              /\ OrderOf(DB, req[1].order_id).delivered_at # NULL
              /\ DriverOf(DB, OrderOf(DB, req[1].order_id).driver_id).status = AVAILABLE
              /\ DriverOf(DB, OrderOf(DB, req[1].order_id).driver_id).current_order_id = NULL

C8_Witness ==
    /\ req[1].op = "update_order_status" /\ req[1].status = DELIVERED
    /\ Succeeded(req[1])
    /\ LET order == OrderOf(DB, req[1].order_id) IN
        /\ order.status = DELIVERED
        /\ order.assigned_at # NULL /\ order.picked_up_at # NULL /\ order.delivered_at # NULL
        /\ order.driver_id = req[1].release
        /\ DriverOf(DB, order.driver_id).status = AVAILABLE
        /\ DriverOf(DB, order.driver_id).current_order_id = NULL

\* an assign call's conditional write of the order matched
AssignWins(p, o) ==
    /\ req[p].op = "assign_order_to_driver" /\ req[p].pc = "update_order"
    /\ req[p].order_id = o
    /\ req'[p].pc = "update_driver"

\* C9  At most one assignment per order and no reassignment: at most one assign
\* call ever succeeds for an order, and a driver_id once set is never cleared or
\* replaced by another driver.
C9_NoReassignment ==
    [][\A i \in 1..Len(orders) :
         /\ orders[i].driver_id # NULL => orders'[i].driver_id = orders[i].driver_id
         /\ \A p \in Procs : AssignWins(p, orders[i].id) => orders[i].assigned_at = NULL]_vars

\* C10  pending -> assigned is performed only by a successful assign: no step of
\* another operation changes an order's status from pending to assigned.
C10_OnlyAssignAssigns ==
    [][\A i \in 1..Len(orders) :
         (orders[i].status = PENDING /\ orders'[i].status = ASSIGNED)
            => \E p \in Procs : AssignWins(p, orders[i].id)]_vars

C12_NoTransitionValidation ==
    (req[1].pc = "done" /\ OrderOf(DB, req[1].order_id) # NoDoc)
        => OrderOf(DB, req[1].order_id).status = req[1].status

\* delivered was accepted for an order that was never assigned or picked up
C12_Witness ==
    /\ Succeeded(req[1]) /\ req[1].status = DELIVERED
    /\ OrderOf(DB, req[1].order_id).status = DELIVERED
    /\ OrderOf(DB, req[1].order_id).driver_id = NULL
    /\ OrderOf(DB, req[1].order_id).picked_up_at = NULL

\* C13  Delivery release is atomic with the status change: no state shows the
\* driver of O released by updateStatus(O, delivered) while O is not yet
\* delivered, nor O delivered by that call while its driver is still busy on O.
C13_ReleaseAtomic ==
    \A p \in Procs :
        (req[p].op = "update_order_status" /\ req[p].status = DELIVERED) =>
            /\ (req[p].pc = "update_order" /\ req[p].release # NULL)
                  => OrderOf(DB, req[p].order_id).status = DELIVERED
            /\ (Succeeded(req[p]) /\ OrderOf(DB, req[p].order_id).status = DELIVERED
                    /\ OrderOf(DB, req[p].order_id).driver_id # NULL)
                  => ~ /\ DriverOf(DB, OrderOf(DB, req[p].order_id).driver_id).status = BUSY
                       /\ DriverOf(DB, OrderOf(DB, req[p].order_id).driver_id).current_order_id
                              = req[p].order_id

\* the step is the driver write of an assign call for driver i
ByAssign(i) ==
    \E p \in Procs :
        /\ req[p].op = "assign_order_to_driver" /\ req[p].pc = "update_driver"
        /\ req'[p].pc = "done"
        /\ req[p].driver_id = drivers[i].id
        /\ drivers'[i].status = BUSY

\* the step is the driver release of updateStatus(O, delivered) for driver i
ByDelivered(i) ==
    \E p \in Procs :
        /\ req[p].op = "update_order_status" /\ req[p].pc = "release_driver"
        /\ req'[p].pc = "update_order"
        /\ req[p].status = DELIVERED
        /\ req[p].release = drivers[i].id
        /\ drivers'[i].status = AVAILABLE

\* the step leaves an answered set-driver-status call for driver i
BySetStatus(i) ==
    \E p \in Procs :
        /\ req'[p].op = "update_driver_status" /\ Succeeded(req'[p])
        /\ req'[p].driver_id = drivers[i].id
        /\ drivers'[i].status = req'[p].status

\* C14 (as stated)  A driver's status is changed only by assign (to busy) and by
\* the delivered step of updateStatus (to available); no other operation changes
\* a driver's status.
C14_OnlyAssignAndDelivered ==
    [][\A i \in 1..Len(drivers) :
         drivers'[i].status # drivers[i].status => (ByAssign(i) \/ ByDelivered(i))]_vars

\* C14 (amended)  A driver's status is changed only by assign (to busy), by the
\* delivered step of updateStatus (to available) and by set-driver-status (to the
\* status asked for); a driver is created available.
C14_DriverStatusWriters ==
    [][/\ \A i \in 1..Len(drivers) :
            drivers'[i].status # drivers[i].status
                => (ByAssign(i) \/ ByDelivered(i) \/ BySetStatus(i))
       /\ \A i \in (Len(drivers) + 1)..Len(drivers') : drivers'[i].status = AVAILABLE]_vars

\* a busy driver was taken offline by hand, and another was freed by a delivery
C14_Witness ==
    /\ \E p \in Procs :
          /\ req[p].op = "update_driver_status" /\ Succeeded(req[p])
          /\ req[p].status = OFFLINE
          /\ DriverOf(DB, req[p].driver_id).status = OFFLINE
          /\ DriverOf(DB, req[p].driver_id).current_order_id # NULL
    /\ \E p \in Procs :
          /\ req[p].op = "update_order_status" /\ req[p].status = DELIVERED
          /\ req[p].release # NULL /\ req[p].pc \in {"update_order", "done"}

\* C15  Dedup on create-order: orders created with the same customer_phone carry
\* the same customer id and orders created with the same restaurant_name the same
\* restaurant id, in any interleaving; there is at most one customer per phone
\* and one restaurant per name.
C15_Dedup ==
    /\ \A i, j \in 1..Len(orders) :
          /\ orders[i].customer_phone = orders[j].customer_phone
                => orders[i].customer_id = orders[j].customer_id
          /\ orders[i].restaurant_name = orders[j].restaurant_name
                => orders[i].restaurant_id = orders[j].restaurant_id
    /\ \A i, j \in 1..Len(customers) : customers[i].phone = customers[j].phone => i = j
    /\ \A i, j \in 1..Len(restaurants) : restaurants[i].name = restaurants[j].name => i = j

\* number of documents of a collection whose status is one of the given ones
Count(coll, statuses) == Cardinality({i \in 1..Len(coll) : coll[i].status \in statuses})

\* C16  Dashboard counts: with no write in progress, stats returns total, pending,
\* active (assigned, picked_up, in_transit) and completed (delivered) orders and
\* total, available and busy drivers as they are in the store; pending + active
\* + completed = total - cancelled; and it writes nothing.
C16_DashboardCounts ==
    /\ [](\A p \in Procs :
            (req[p].op = "get_dashboard_stats" /\ req[p].pc = "done") =>
                /\ Succeeded(req[p])
                /\ req[p].total_orders = Len(orders)
                /\ req[p].pending_orders = Count(orders, {PENDING})
                /\ req[p].active_orders = Count(orders, {ASSIGNED, PICKED_UP, IN_TRANSIT})
                /\ req[p].completed_orders = Count(orders, {DELIVERED})
                /\ req[p].total_drivers = Len(drivers)
                /\ req[p].available_drivers = Count(drivers, {AVAILABLE})
                /\ req[p].busy_drivers = Count(drivers, {BUSY})
                /\ req[p].pending_orders + req[p].active_orders + req[p].completed_orders
                      = req[p].total_orders - Count(orders, {CANCELLED}))
    /\ [][StoreUnchanged]_vars

C16_Witness ==
    /\ req[1].op = "get_dashboard_stats" /\ Succeeded(req[1])
    /\ req[1].total_orders = 2 /\ req[1].active_orders = 1 /\ req[1].pending_orders = 0
    /\ req[1].completed_orders = 0
    /\ Count(orders, {CANCELLED}) = 1 /\ Count(orders, {IN_TRANSIT}) = 1
    /\ req[1].total_drivers = 2 /\ req[1].available_drivers = 0 /\ req[1].busy_drivers = 1

\* C17  Set-driver-status answers 404 if and only if no driver has the id; for an
\* existing driver it succeeds for every target status, the current one included,
\* and changes only that driver's status: current_order_id and every order stay.
C17_SetDriverStatusOutcome ==
    [][\A p \in Procs :
         Steps(p, "update_driver_status") =>
            /\ IF DriverOf(DB, req'[p].driver_id) = NoDoc
               THEN NotFound(req'[p], "Driver not found")
               ELSE Succeeded(req'[p])
            /\ orders' = orders
            /\ Len(drivers') = Len(drivers)
            /\ \A i \in 1..Len(drivers) :
                  /\ drivers'[i].current_order_id = drivers[i].current_order_id
                  /\ drivers[i].id # req'[p].driver_id => drivers'[i] = drivers[i]]_vars

\* C18  Frame of updateStatus(O, s): with s other than delivered no driver record
\* is modified; for every s no order other than O is modified; on O only status
\* and the timestamp matching s (picked_up_at for picked_up, delivered_at for
\* delivered) change: driver_id, driver_name and assigned_at stay as they were.
C18_UpdateStatusFrame ==
    [][\A p \in Procs :
         Steps(p, "update_order_status") =>
            /\ req'[p].status # DELIVERED => drivers' = drivers
            /\ customers' = customers /\ restaurants' = restaurants
            /\ Len(orders') = Len(orders)
            /\ \A i \in 1..Len(orders) :
                  IF orders[i].id # req'[p].order_id
                  THEN orders'[i] = orders[i]
                  ELSE \A f \in DOMAIN orders[i] :
                          orders'[i][f] # orders[i][f] =>
                              \/ f = "status"
                              \/ f = "picked_up_at" /\ req'[p].status = PICKED_UP
                              \/ f = "delivered_at" /\ req'[p].status = DELIVERED]_vars

C18_Witness ==
    /\ Succeeded(req[1]) /\ req[1].op = "update_order_status" /\ req[1].status = PICKED_UP
    /\ OrderOf(DB, req[1].order_id).status = PICKED_UP
    /\ OrderOf(DB, req[1].order_id).picked_up_at # NULL
    /\ OrderOf(DB, req[1].order_id).driver_id # NULL
    /\ OrderOf(DB, req[1].order_id).assigned_at # NULL
    /\ OrderOf(DB, req[1].order_id).delivered_at = NULL
    /\ DriverOf(DB, OrderOf(DB, req[1].order_id).driver_id).current_order_id = req[1].order_id
    /\ Len(orders) > 1

\* C19  Timestamp invariant: every delivered order has delivered_at set and every
\* picked_up order has picked_up_at set, in every reachable state; a timestamp
\* once set is never cleared.
C19_Timestamps ==
    /\ [](\A i \in 1..Len(orders) :
            /\ orders[i].status = DELIVERED => orders[i].delivered_at # NULL
            /\ orders[i].status = PICKED_UP => orders[i].picked_up_at # NULL)
    /\ [][\A i \in 1..Len(orders) :
            \A f \in {"assigned_at", "picked_up_at", "delivered_at"} :
                orders[i][f] # NULL => orders'[i][f] # NULL]_vars

\* a delivered order that keeps the pick-up time it got on the way
C19_Witness ==
    \E i \in 1..Len(orders) :
        /\ orders[i].status = DELIVERED
        /\ orders[i].delivered_at # NULL
        /\ orders[i].picked_up_at # NULL

\* C20  No stuck driver after a race: when assign(O, D) and updateStatus(O,
\* delivered) ran concurrently and both succeeded, D ends available with
\* current_order_id cleared; in no quiescent state is a driver busy with
\* current_order_id pointing at a delivered order.
C20_NoStuckDriver ==
    (\A p \in Procs : req[p].pc \in {"idle", "done"}) =>
        \A i \in 1..Len(drivers) :
            ~ /\ drivers[i].status = BUSY
              /\ drivers[i].current_order_id # NULL
              /\ OrderOf(DB, drivers[i].current_order_id).status = DELIVERED

\* the orders that name driver d and are on their way
ActiveOrdersOf(d) ==
    {j \in 1..Len(orders) :
        orders[j].driver_id = d /\ orders[j].status \in {ASSIGNED, PICKED_UP, IN_TRANSIT}}

\* C21  No double booking: in every reachable state each driver is the driver_id
\* of at most one order with status assigned, picked_up or in_transit; assign
\* never succeeds for a driver who is busy on another active order.
C21_NoDoubleBooking ==
    \A i \in 1..Len(drivers) : Cardinality(ActiveOrdersOf(drivers[i].id)) <= 1

\* C22  updateStatus(O, delivered) releases a driver only if that driver is
\* serving O: it never sets to available, nor clears the current_order_id of, a
\* driver whose current_order_id refers to an order other than O.
C22_ReleasesOnlyOwnDriver ==
    [][\A p \in Procs :
         (Steps(p, "update_order_status") /\ req'[p].status = DELIVERED) =>
            \A i \in 1..Len(drivers) :
                (drivers[i].current_order_id # NULL
                    /\ drivers[i].current_order_id # req'[p].order_id)
                  => drivers'[i] = drivers[i]]_vars

\* C23  Referential integrity: in every reachable state every non-null
\* order.driver_id is the id of an existing driver and every non-null
\* driver.current_order_id is the id of an existing order; orders and drivers are
\* never deleted.
C23_ReferentialIntegrity ==
    /\ [](/\ \A i \in 1..Len(orders) :
              orders[i].driver_id # NULL => DriverOf(DB, orders[i].driver_id) # NoDoc
          /\ \A i \in 1..Len(drivers) :
              drivers[i].current_order_id # NULL
                  => OrderOf(DB, drivers[i].current_order_id) # NoDoc)
    /\ [][/\ Len(orders') >= Len(orders) /\ Len(drivers') >= Len(drivers)
          /\ \A i \in 1..Len(orders) : orders'[i].id = orders[i].id
          /\ \A i \in 1..Len(drivers) : drivers'[i].id = drivers[i].id]_vars

\* an assign for an order that does not exist was refused, next to a driver and
\* an order that refer to each other
C23_Witness ==
    /\ \E p \in Procs :
          /\ req[p].op = "assign_order_to_driver" /\ Conflict(req[p])
          /\ OrderOf(DB, req[p].order_id) = NoDoc
          /\ DriverOf(DB, req[p].driver_id) # NoDoc
    /\ \E i \in 1..Len(drivers) :
          /\ drivers[i].current_order_id # NULL
          /\ OrderOf(DB, drivers[i].current_order_id).driver_id = drivers[i].id

====
